---------------------------- MODULE Spec2Model ----------------------------
(***************************************************************************)
(* A model of the two utility scripts of ScheduleHQ:                       *)
(*   create_ico_from_pngs.py        packs the PNG files that exist into a  *)
(*                                  multi-image ICO container;             *)
(*   scripts/shift_manager_uploader.py  uploads every CSV file of a folder *)
(*                                  and deletes the ones that went up.     *)
(* Files are sequences of bytes (0..255); struct.pack is modelled byte by  *)
(* byte, little-endian.                                                    *)
(***************************************************************************)
EXTENDS Integers, Sequences, FiniteSets, TLC

VARIABLES
    exists,        \* ico: the sizes whose app_icon_<size>.png exists (os.path.exists)
    encoded,       \* ico: size -> the PNG bytes img.save() yields for that file
    outExists,     \* ico: whether the output path exists
    outBytes,      \* ico: the content of the output path
    images_data,   \* ico: the list built by the load loop of the last run
    outcome,       \* ico: how the last run ended
    opened,        \* ico: whether the last run opened the output path
    runs,          \* ico: number of runs so far
    prevOutcome,   \* ico: how the run before the last one ended
    prevExists,    \* ico: whether the output path existed when the last run began
    prevBytes,     \* ico: the content of the output path when the last run began
    upPc,          \* uploader: position of main()
    folderExists,  \* uploader: whether the watch folder exists
    disk,          \* uploader: the CSV files in the watch folder
    csv_files,     \* uploader: the list get_csv_files returned
    idx,           \* uploader: number of loop iterations done
    uploaded,      \* uploader: counter
    failed,        \* uploader: counter
    uploadLog,     \* uploader: the upload attempts, <<file, ok>>, in order
    deleteLog,     \* uploader: the delete attempts, <<file, ok>>, in order
    summary        \* uploader: the counts logged at the end, or <<>>

icoVars == <<exists, encoded, outExists, outBytes, images_data, outcome, opened,
             runs, prevOutcome, prevExists, prevBytes>>
upVars == <<upPc, folderExists, disk, csv_files, idx, uploaded, failed, uploadLog, deleteLog,
            summary>>
vars == <<icoVars, upVars>>

---------------------------------------------------------------------------
(* Bounds *)

\* longest of the short PNG payloads
MaxLen == 2
\* runs of create_ico_from_pngs in one behaviour
MaxRuns == 2
\* CSV files that may lie in the watch folder
MaxFiles == 3

---------------------------------------------------------------------------
(* create_ico_from_pngs.py *)

\* the keys of png_files
Sizes == {256, 128, 64, 48, 36, 16}

HeaderSize == 6
DirEntrySize == 16

\* the payload lengths of the 256/48/16 scenario, by size (0: none)
ScenarioLen(size) ==
    CASE size = 256 -> 1000
      [] size = 48 -> 400
      [] size = 16 -> 150
      [] OTHER -> 0

\* an encoded image of the given length; its bytes depend on the size, so the
\* payloads of two entries differ
Payload(size, len) == [i \in 1..len |-> (size + 7 * i) % 256]

PayloadLens(size) ==
    (1..MaxLen) \cup (IF ScenarioLen(size) > 0 THEN {ScenarioLen(size)} ELSE {})

\* what the output path may hold before the first run
StaleBytes == <<73, 67, 79, 33>>

RECURSIVE SortedReverse(_)
SortedReverseAsc(S) ==
    IF S = {} THEN <<>>
    ELSE LET m == CHOOSE x \in S : \A y \in S : x <= y
         IN <<m>> \o SortedReverse(S \ {m})
\* sorted(png_files.keys(), reverse=True)
SortedReverse(S) ==
    IF S = {} THEN <<>>
    ELSE LET m == CHOOSE x \in S : \A y \in S : x >= y
         IN <<m>> \o SortedReverse(S \ {m})

\* images_data.append({'size': size, 'data': png_data})
ImageInfo(size, png_data) == [size |-> size, data |-> png_data]

RECURSIVE LoadFrom(_, _, _)
\* the load loop: one {'size', 'data'} per file that exists, in loop order
LoadFrom(order, ex, enc) ==
    IF order = <<>> THEN <<>>
    ELSE (IF Head(order) \in ex
          THEN << ImageInfo(Head(order), enc[Head(order)]) >>
          ELSE <<>>)
         \o LoadFrom(Tail(order), ex, enc)

LoadImages(ex, enc) == LoadFrom(SortedReverse(Sizes), ex, enc)

\* struct.pack('<H', n) and struct.pack('<I', n)
PackH(n) == <<n % 256, (n \div 256) % 256>>
PackI(n) == <<n % 256, (n \div 256) % 256, (n \div 65536) % 256,
              (n \div 16777216) % 256>>

IcoHeaderBadType(n) == PackH(0) \o PackH(2) \o PackH(n)
\* struct.pack('<HHH', 0, 1, len(images_data))
IcoHeader(n) == PackH(0) \o PackH(1) \o PackH(n)

StoredDimNoZero(size) == IF size < 128 THEN size ELSE 0
\* width = size if size < 256 else 0
StoredDim(size) == IF size < 256 THEN size ELSE 0

\* struct.pack('<BBBBHHII', width, height, 0, 0, 1, 32, data_size, offset)
DirEntry(size, data_size, offset) ==
    <<StoredDim(size), StoredDim(size), 0, 0>>
    \o PackH(1) \o PackH(32) \o PackI(data_size) \o PackI(offset)

\* offset = 6 + (16 * len(images_data))
FirstOffset(n) == HeaderSize + DirEntrySize * n

NextOffsetPadded(offset, data_size) == offset + data_size + (data_size % 2)
\* offset += data_size
NextOffset(offset, data_size) == offset + data_size

\* the directory loop
RECURSIVE Directory(_, _)
Directory(images, offset) ==
    IF images = <<>> THEN <<>>
    ELSE LET data_size == Len(Head(images).data)
         IN DirEntry(Head(images).size, data_size, offset)
            \o Directory(Tail(images), NextOffset(offset, data_size))

RECURSIVE ImageData(_)
ImageDataReversed(images) ==
    IF images = <<>> THEN <<>>
    ELSE ImageData(Tail(images)) \o Head(images).data
\* the image data loop
ImageData(images) ==
    IF images = <<>> THEN <<>>
    ELSE Head(images).data \o ImageData(Tail(images))

OpenAppend(oldExists, old) == IF oldExists THEN old ELSE <<>>
\* open(output_ico, 'wb'): the file is created or truncated
OpenWb(oldExists, old) == <<>>

\* everything the with-block writes
IcoFile(images) ==
    IcoHeader(Len(images))
    \o Directory(images, FirstOffset(Len(images)))
    \o ImageData(images)

NoImagesNeverChecked(images) == FALSE
\* if not images_data
NoImages(images) == images = <<>>

\* one call of create_ico_from_pngs(png_dir, output_ico)
create_ico_from_pngs ==
    /\ runs < MaxRuns
    /\ runs' = runs + 1
    /\ prevOutcome' = outcome
    /\ prevExists' = outExists
    /\ prevBytes' = outBytes
    /\ images_data' = LoadImages(exists, encoded)
    /\ IF NoImages(images_data')
       THEN \* print("Error: No PNG files found!"); return
            /\ outcome' = "error_printed"
            /\ opened' = FALSE
            /\ UNCHANGED <<outExists, outBytes>>
       ELSE /\ outcome' = "created"
            /\ opened' = TRUE
            /\ outExists' = TRUE
            /\ outBytes' = OpenWb(outExists, outBytes) \o IcoFile(images_data')
    /\ UNCHANGED <<exists, encoded>>
    /\ UNCHANGED upVars

\* the PNG files of png_dir and the output path before the first run
IcoInit ==
    /\ \E ln \in [Sizes -> {0} \cup UNION {PayloadLens(s) : s \in Sizes}] :
         /\ \A s \in Sizes : ln[s] \in {0} \cup PayloadLens(s)
         /\ exists = {s \in Sizes : ln[s] > 0}
         /\ encoded = [s \in Sizes |-> Payload(s, ln[s])]
    /\ outExists \in BOOLEAN
    /\ outBytes = IF outExists THEN StaleBytes ELSE <<>>
    /\ images_data = <<>>
    /\ outcome = "not_run"
    /\ opened = FALSE
    /\ runs = 0
    /\ prevOutcome = "not_run"
    /\ prevExists = FALSE
    /\ prevBytes = <<>>

\* the converter is not run: a fixed, empty resources directory
IcoIdle ==
    /\ exists = {}
    /\ encoded = [s \in Sizes |-> <<>>]
    /\ outExists = FALSE
    /\ outBytes = <<>>
    /\ images_data = <<>>
    /\ outcome = "not_run"
    /\ opened = FALSE
    /\ runs = 0
    /\ prevOutcome = "not_run"
    /\ prevExists = FALSE
    /\ prevBytes = <<>>

---------------------------------------------------------------------------
(* scripts/shift_manager_uploader.py *)

\* the CSV files that may lie in the watch folder
Files == 1..MaxFiles

RECURSIVE Perms(_)
\* every order list(folder_path.glob("*.csv")) may yield
Perms(S) ==
    IF S = {} THEN {<<>>}
    ELSE UNION {{<<x>> \o p : p \in Perms(S \ {x})} : x \in S}

\* get_csv_files(folder): the lists it may return
get_csv_files(fe, d) == IF ~fe THEN {<<>>} ELSE Perms(d)

DeleteAlways(upOk) == TRUE
\* if upload_file(csv_file): ... delete_local_file(csv_file)
DeleteAttempted(upOk) == upOk

\* file_path.unlink(): on failure the file stays
Unlink(d, f, delOk) == IF delOk THEN d \ {f} ELSE d

UploadedIncOnlyIfDeleted(upOk, delOk) == IF upOk /\ delOk THEN 1 ELSE 0
\* uploaded += 1 in both branches of the delete test
UploadedInc(upOk, delOk) == IF upOk THEN 1 ELSE 0

\* failed += 1 in the else branch of the upload test
FailedInc(upOk, delOk) == IF upOk THEN 0 ELSE 1

NextIdxBreakOnFailure(i, n, upOk) == IF upOk THEN i + 1 ELSE n
\* for csv_file in csv_files: the loop goes on whatever the outcome
NextIdx(i, n, upOk) == i + 1

\* main(): initialize_firebase() returns, or calls sys.exit(1)
initialize_firebase ==
    /\ upPc = "start"
    /\ \E ok \in BOOLEAN : upPc' = IF ok THEN "ready" ELSE "exited"
    /\ UNCHANGED <<folderExists, disk, csv_files, idx, uploaded, failed, uploadLog,
                   deleteLog, summary>>
    /\ UNCHANGED icoVars

\* process_files() up to the loop
process_files_scan ==
    /\ upPc = "ready"
    /\ \E l \in get_csv_files(folderExists, disk) :
         /\ csv_files' = l
         /\ upPc' = IF l = <<>> THEN "done" ELSE "loop"
    /\ uploaded' = 0
    /\ failed' = 0
    /\ idx' = 0
    /\ UNCHANGED <<folderExists, disk, uploadLog, deleteLog, summary>>
    /\ UNCHANGED icoVars

\* one iteration of the loop of process_files()
process_files_iteration ==
    /\ upPc = "loop"
    /\ idx < Len(csv_files)
    /\ LET csv_file == csv_files[idx + 1] IN
       \E upOk \in BOOLEAN, delOk \in BOOLEAN :
         /\ uploadLog' = Append(uploadLog, <<csv_file, upOk>>)
         /\ IF DeleteAttempted(upOk)
            THEN /\ deleteLog' = Append(deleteLog, <<csv_file, delOk>>)
                 /\ disk' = Unlink(disk, csv_file, delOk)
            ELSE UNCHANGED <<deleteLog, disk>>
         /\ uploaded' = uploaded + UploadedInc(upOk, delOk)
         /\ failed' = failed + FailedInc(upOk, delOk)
         /\ idx' = NextIdx(idx, Len(csv_files), upOk)
    /\ UNCHANGED <<upPc, folderExists, csv_files, summary>>
    /\ UNCHANGED icoVars

\* process_files() after the loop: the summary line
process_files_summary ==
    /\ upPc = "loop"
    /\ idx >= Len(csv_files)
    /\ summary' = <<uploaded, failed>>
    /\ upPc' = "done"
    /\ UNCHANGED <<folderExists, disk, csv_files, idx, uploaded, failed, uploadLog,
                   deleteLog>>
    /\ UNCHANGED icoVars

\* the watch folder before the run
UpInit ==
    /\ upPc = "start"
    /\ folderExists \in BOOLEAN
    /\ disk \in SUBSET Files
    /\ (~folderExists => disk = {})
    /\ csv_files = <<>>
    /\ idx = 0
    /\ uploaded = 0
    /\ failed = 0
    /\ uploadLog = <<>>
    /\ deleteLog = <<>>
    /\ summary = <<>>

\* the uploader is not run: no watch folder
UpIdle ==
    /\ upPc = "start"
    /\ folderExists = FALSE
    /\ disk = {}
    /\ csv_files = <<>>
    /\ idx = 0
    /\ uploaded = 0
    /\ failed = 0
    /\ uploadLog = <<>>
    /\ deleteLog = <<>>
    /\ summary = <<>>

---------------------------------------------------------------------------
(* Specifications *)

Init == IcoInit /\ UpIdle
Next == create_ico_from_pngs
Spec == Init /\ [][Next]_vars

UploaderInit == IcoIdle /\ UpInit
UploaderNext ==
    \/ initialize_firebase
    \/ process_files_scan
    \/ process_files_iteration
    \/ process_files_summary
UploaderSpec == UploaderInit /\ [][UploaderNext]_vars

---------------------------------------------------------------------------
(* Reading a container back: the ICO format, little-endian *)

U16(b, p) == b[p] + 256 * b[p + 1]
U32(b, p) == b[p] + 256 * b[p + 1] + 65536 * b[p + 2] + 16777216 * b[p + 3]

ParsedCount(f) == U16(f, 5)
\* first byte (1-based) of directory record i
RecBase(i) == 6 + 16 * (i - 1) + 1
RecWidth(f, i) == f[RecBase(i)]
RecHeight(f, i) == f[RecBase(i) + 1]
RecPalette(f, i) == f[RecBase(i) + 2]
RecReserved(f, i) == f[RecBase(i) + 3]
RecPlanes(f, i) == U16(f, RecBase(i) + 4)
RecBpp(f, i) == U16(f, RecBase(i) + 6)
RecLength(f, i) == U32(f, RecBase(i) + 8)
RecOffset(f, i) == U32(f, RecBase(i) + 12)
\* the bytes at absolute offsets off .. off + len - 1
Region(f, off, len) == SubSeq(f, off + 1, off + len)
\* a stored width or height of 0 means 256
DecodeDim(b) == IF b = 0 THEN 256 ELSE b

RECURSIVE SumLens(_, _)
\* L_1 + ... + L_k of the entries written
SumLens(images, k) ==
    IF k = 0 THEN 0 ELSE Len(images[k].data) + SumLens(images, k - 1)

\* the last run wrote a container
Created == outcome = "created"
\* the last run found no PNG file at all
RanEmpty == runs > 0 /\ exists = {}

---------------------------------------------------------------------------
(* Claims about create_ico_from_pngs *)

\* C1: re-parsing a written container recovers entryCount = number of entries,
\* and the offset and length of directory record i delimit a region of the
\* file that is exactly the encoded bytes of entry i, in directory order.
C1_RoundTrip ==
    Created =>
        /\ images_data # <<>>
        /\ Len(outBytes) >= 6 + 16 * Len(images_data)
        /\ ParsedCount(outBytes) = Len(images_data)
        /\ \A i \in 1..Len(images_data) :
             /\ images_data[i].data = encoded[images_data[i].size]
             /\ RecLength(outBytes, i) = Len(images_data[i].data)
             /\ RecOffset(outBytes, i) + RecLength(outBytes, i) <= Len(outBytes)
             /\ Region(outBytes, RecOffset(outBytes, i), RecLength(outBytes, i))
                  = images_data[i].data

C1_Witness ==
    /\ Created
    /\ Len(images_data) = 6
    /\ Region(outBytes, RecOffset(outBytes, 6), RecLength(outBytes, 6))
         = encoded[16]
    /\ Len(encoded[256]) = 1000

\* C2: the offset written for entry i is 6 + 16*n + the lengths of the entries
\* before it; payloads are adjacent, the file is 6 + 16*n + all lengths long;
\* sizes {256, 48, 16} with lengths {1000, 400, 150} give {54, 1054, 1454}.
C2_Offsets ==
    Created =>
        LET n == Len(images_data) IN
        /\ \A i \in 1..n :
             RecOffset(outBytes, i) = 6 + 16 * n + SumLens(images_data, i - 1)
        /\ RecOffset(outBytes, 1) = 6 + 16 * n
        /\ \A i \in 1..(n - 1) :
             RecOffset(outBytes, i + 1)
               = RecOffset(outBytes, i) + RecLength(outBytes, i)
        /\ Len(outBytes) = 6 + 16 * n + SumLens(images_data, n)
        /\ (/\ exists = {256, 48, 16}
            /\ Len(encoded[256]) = 1000
            /\ Len(encoded[48]) = 400
            /\ Len(encoded[16]) = 150)
           => /\ n = 3
              /\ RecOffset(outBytes, 1) = 54
              /\ RecOffset(outBytes, 2) = 1054
              /\ RecOffset(outBytes, 3) = 1454

C2_Witness ==
    /\ Created
    /\ exists = {256, 48, 16}
    /\ <<Len(encoded[256]), Len(encoded[48]), Len(encoded[16])>> = <<1000, 400, 150>>
    /\ <<RecOffset(outBytes, 1), RecOffset(outBytes, 2), RecOffset(outBytes, 3)>>
         = <<54, 1054, 1454>>

\* C3: the stored width and height are both 0 exactly when the dimension is
\* 256 and are the dimension otherwise, so decoding (0 means 256) recovers the
\* dimension, for every dimension in 1..256; width equals height.
C3_DimRoundTrip ==
    /\ \A d \in 1..256 :
         /\ DecodeDim(StoredDim(d)) = d
         /\ (StoredDim(d) = 0 <=> d = 256)
    /\ Created =>
         \A i \in 1..Len(images_data) :
           LET size == images_data[i].size IN
           /\ RecWidth(outBytes, i) = RecHeight(outBytes, i)
           /\ (RecWidth(outBytes, i) = 0 <=> size = 256)
           /\ (size # 256 => RecWidth(outBytes, i) = size)
           /\ DecodeDim(RecWidth(outBytes, i)) = size
           /\ DecodeDim(RecHeight(outBytes, i)) = size

C3_Witness ==
    /\ Created
    /\ {256, 128} \subseteq exists
    /\ RecWidth(outBytes, 1) = 0
    /\ RecHeight(outBytes, 1) = 0
    /\ RecWidth(outBytes, 2) = 128

C8_Deterministic ==
    (Created /\ prevOutcome = "created") =>
        /\ prevExists
        /\ outBytes = prevBytes

C8_Witness ==
    /\ Created
    /\ prevOutcome = "created"
    /\ runs = 2
    /\ outBytes = prevBytes
    /\ Len(images_data) >= 2

\* C9: missing resolutions are skipped without failure: the container holds
\* exactly one entry per existing file, none for a missing one, and directory
\* records and payloads appear in strictly decreasing dimension order.
C9_SkipMissing ==
    /\ (runs > 0 /\ exists # {}) => Created
    /\ Created =>
         LET n == ParsedCount(outBytes)
             dim(i) == DecodeDim(RecWidth(outBytes, i))
         IN
         /\ n = Cardinality(exists)
         /\ {dim(i) : i \in 1..n} = exists
         /\ \A i \in 1..(n - 1) : dim(i) > dim(i + 1)
         /\ \A i \in 1..n :
              Region(outBytes, RecOffset(outBytes, i), RecLength(outBytes, i))
                = encoded[dim(i)]
         /\ \A i \in 1..(n - 1) : RecOffset(outBytes, i) < RecOffset(outBytes, i + 1)

C9_Witness ==
    /\ Created
    /\ exists = {128, 48, 36}
    /\ ParsedCount(outBytes) = 3
    /\ DecodeDim(RecWidth(outBytes, 1)) = 128
    /\ DecodeDim(RecWidth(outBytes, 3)) = 36

\* C10: the header is 6 bytes, reserved 0, type 1, entryCount the number of
\* records (1..6); every record is 16 bytes with palette 0, reserved 0,
\* planes 1, 32 bits per pixel, and width and height in 0..255.
C10_Layout ==
    Created =>
        LET n == ParsedCount(outBytes) IN
        /\ \A p \in 1..Len(outBytes) : outBytes[p] \in 0..255
        /\ U16(outBytes, 1) = 0
        /\ U16(outBytes, 3) = 1
        /\ n = Len(images_data)
        /\ n \in 1..6
        /\ n <= 65535
        /\ RecOffset(outBytes, 1) = 6 + 16 * n
        /\ \A i \in 1..n :
             /\ RecPalette(outBytes, i) = 0
             /\ RecReserved(outBytes, i) = 0
             /\ RecPlanes(outBytes, i) = 1
             /\ RecBpp(outBytes, i) = 32
             /\ RecWidth(outBytes, i) \in 0..255
             /\ RecHeight(outBytes, i) \in 0..255

C10_Witness ==
    /\ Created
    /\ ParsedCount(outBytes) = 6
    /\ U16(outBytes, 3) = 1
    /\ RecBpp(outBytes, 6) = 32

---------------------------------------------------------------------------
(* Claims about process_files *)

\* the files get_csv_files returned
Scanned == {csv_files[k] : k \in 1..Len(csv_files)}
UploadOk(f) == \E k \in 1..Len(uploadLog) : uploadLog[k] = <<f, TRUE>>
UploadFailed(f) == \E k \in 1..Len(uploadLog) : uploadLog[k] = <<f, FALSE>>
DeleteTried(f) == \E k \in 1..Len(deleteLog) : deleteLog[k][1] = f
DeleteOk(f) == \E k \in 1..Len(deleteLog) : deleteLog[k] = <<f, TRUE>>
DeleteFailed(f) == \E k \in 1..Len(deleteLog) : deleteLog[k] = <<f, FALSE>>
OkUploads == {k \in 1..Len(uploadLog) : uploadLog[k][2]}
FailedUploads == {k \in 1..Len(uploadLog) : ~uploadLog[k][2]}
\* process_files went through its loop and logged the summary
Finished == upPc = "done" /\ csv_files # <<>>

\* C5: a file is deleted only after its own upload succeeded: a file whose
\* upload failed is still on disk and no delete was attempted for it, a file
\* whose upload and delete succeeded is gone; 2 files with one upload
\* succeeding and one failing give the summary uploaded=1, failed=1.
C5_DeleteOnlyAfterUpload ==
    /\ \A f \in Scanned : (DeleteTried(f) \/ f \notin disk) => UploadOk(f)
    /\ \A f \in Scanned :
         /\ UploadFailed(f) => (f \in disk /\ ~DeleteTried(f))
         /\ (UploadOk(f) /\ DeleteOk(f)) => f \notin disk
    /\ (Finished /\ Len(csv_files) = 2 /\ Cardinality(OkUploads) = 1
          /\ Cardinality(FailedUploads) = 1)
       => summary = <<1, 1>>

C5_Witness ==
    /\ Finished
    /\ Len(csv_files) = 2
    /\ UploadOk(csv_files[1]) /\ DeleteOk(csv_files[1])
    /\ UploadFailed(csv_files[2])
    /\ disk = {csv_files[2]}
    /\ summary = <<1, 1>>

\* C6: whatever uploads and deletes fail, every scanned file is processed
\* exactly once, in scan order, no failure aborts the loop, and at the end
\* uploaded + failed is the number of scanned files, failed the number of
\* failed uploads.
C6_ContinueOnError ==
    /\ Len(uploadLog) = idx
    /\ idx <= Len(csv_files)
    /\ \A k \in 1..Len(uploadLog) : uploadLog[k][1] = csv_files[k]
    /\ Cardinality(Scanned) = Len(csv_files)
    /\ uploaded + failed = idx
    /\ failed = Cardinality(FailedUploads)
    /\ Finished =>
         /\ idx = Len(csv_files)
         /\ summary = <<uploaded, failed>>
         /\ uploaded + failed = Len(csv_files)
         /\ \A f \in Scanned : Cardinality({k \in 1..Len(uploadLog) : uploadLog[k][1] = f}) = 1

C6_Witness ==
    /\ Finished
    /\ Len(csv_files) = 3
    /\ ~uploadLog[1][2]
    /\ uploadLog[2][2] /\ ~deleteLog[1][2]
    /\ uploadLog[3][2]
    /\ summary = <<2, 1>>

\* the step in which the upload of csv_files[idx + 1] succeeds and its delete fails
DeleteFailedStep ==
    /\ Len(deleteLog') = Len(deleteLog) + 1
    /\ deleteLog'[Len(deleteLog')] = <<csv_files[idx + 1], FALSE>>

\* C7: when the upload of a file succeeds and deleting it fails, uploaded goes
\* up by exactly 1, failed stays, the file stays on disk and the loop goes on
\* with the next file.
C7_DeleteFailureStillUploaded ==
    [][DeleteFailedStep =>
         /\ uploadLog' = Append(uploadLog, <<csv_files[idx + 1], TRUE>>)
         /\ uploaded' = uploaded + 1
         /\ failed' = failed
         /\ csv_files[idx + 1] \in disk'
         /\ disk' = disk
         /\ idx' = idx + 1
         /\ upPc' = "loop"]_vars

C7_Witness ==
    /\ Finished
    /\ Len(csv_files) = 2
    /\ UploadOk(csv_files[1]) /\ DeleteFailed(csv_files[1])
    /\ csv_files[1] \in disk
    /\ UploadOk(csv_files[2]) /\ DeleteOk(csv_files[2])
    /\ summary = <<2, 0>>

=============================================================================
